---- MODULE Spec2Model ----
(***************************************************************************)
(* A model of the NebulaReports server (src/server.js): the in-memory      *)
(* report store, its whole-file mirror reports.json, the POST /report      *)
(* handler with its await points, the read handlers, and the Discord       *)
(* notification.                                                           *)
(*                                                                         *)
(* JavaScript values are records [t, n, s] (type tag, number, string) so   *)
(* that values of different JavaScript types stay comparable.  The text of *)
(* reports.json is a sequence of tokens: one token per serialized report   *)
(* and one closing token, so that overlapping writes can leave a text that *)
(* JSON.parse rejects.                                                     *)
(***************************************************************************)
EXTENDS Integers, Sequences, FiniteSets, TLC

(* ------------------------------ bounds --------------------------------- *)
\* number of POST /report requests a behaviour issues
MaxReq == 2
\* size of the identifier space the random draw ranges over
NumIds == 3
\* depth at which the recursion of generateId exhausts the call stack
MaxStack == 2
\* number of distinct later clock readings
MaxTick == 1

(* ------------------------- program constants --------------------------- *)
SkewTolerance == 3600000
SuspiciousPasses == 1000

(* --------------------------- JavaScript values ------------------------- *)
Undef == [t |-> "undefined", n |-> 0, s |-> ""]
Null == [t |-> "null", n |-> 0, s |-> ""]
Num(k) == [t |-> "number", n |-> k, s |-> ""]
Str(x) == [t |-> "string", n |-> 0, s |-> x]
Obj == [t |-> "object", n |-> 0, s |-> ""]
Arr == [t |-> "array", n |-> 0, s |-> ""]

\* typeof v
TypeOf(v) ==
    IF v.t \in {"null", "array", "object"} THEN "object" ELSE v.t

\* ToBoolean(v): what !v and v || d test
Truthy(v) ==
    CASE v.t = "undefined" -> FALSE
      [] v.t = "null" -> FALSE
      [] v.t = "number" -> v.n # 0
      [] v.t = "string" -> v.s # ""
      [] v.t = "boolean" -> v.n = 1
      [] OTHER -> TRUE

\* v || d
OrElse(v, d) == IF Truthy(v) THEN v ELSE d

\* Array.isArray(v)
IsArray(v) == v.t = "array"

(* ------------------------------- dates --------------------------------- *)
ClockStart == 3 * SkewTolerance
ClockRange == ClockStart .. (ClockStart + MaxTick)

\* the instants the model formats or parses: clock readings of this run and
\* of the run before it, and instants around the skew tolerance from them
DateDomain ==
    ClockRange \cup {ClockStart - 1, ClockStart - 2} \cup
    { c + d : c \in ClockRange,
              d \in {SkewTolerance, SkewTolerance + 1,
                     0 - SkewTolerance, 0 - (SkewTolerance + 1)} }

\* Date.prototype.toISOString
toISOString(ms) == ToString(ms) \o "Z"

InvalidDate == [valid |-> FALSE, ms |-> 0]

\* Date.parse of a string: the instant whose ISO text it is, else NaN
DateParse(x) ==
    IF \E ms \in DateDomain : toISOString(ms) = x
    THEN [valid |-> TRUE, ms |-> CHOOSE ms \in DateDomain : toISOString(ms) = x]
    ELSE InvalidDate

\* new Date(v)
NewDate(v) ==
    CASE v.t = "number" -> [valid |-> TRUE, ms |-> v.n]
      [] v.t = "string" -> DateParse(v.s)
      [] v.t = "boolean" -> [valid |-> TRUE, ms |-> v.n]
      [] v.t = "null" -> [valid |-> TRUE, ms |-> 0]
      [] OTHER -> InvalidDate

Abs(k) == IF k < 0 THEN 0 - k ELSE k

(* ------------------------------ payloads ------------------------------- *)
\* data.executor: a value with its name property
Executor(v, name) == [t |-> v.t, n |-> v.n, s |-> v.s, name |-> name]
NoExecutor == Executor(Undef, Undef)
ExecutorNamed(x) == Executor(Obj, Str(x))

\* data.executor.name (a property read of a primitive yields undefined)
ExecutorName(e) == IF e.t = "object" THEN e.name ELSE Undef

\* req.body with every field absent
EmptyBody ==
    [body |-> Obj, executor |-> NoExecutor, system |-> Undef, player |-> Undef,
     categories |-> Undef, passes |-> Undef, fails |-> Undef,
     timestamp |-> Undef, totalTests |-> Undef, successRate |-> Undef,
     grade |-> Undef, duration |-> Undef, version |-> Undef]

\* a body that satisfies every rule of the validator
GoodBody(name, p, f) ==
    [EmptyBody EXCEPT !.executor = ExecutorNamed(name), !.system = Obj,
                      !.categories = Arr, !.passes = Num(p), !.fails = Num(f)]

(* ------------------------------ validator ------------------------------ *)
\* what a call of the validator comes to: a result object, or an exception
Valid == [valid |-> TRUE, error |-> "", threw |-> FALSE]
Invalid(msg) == [valid |-> FALSE, error |-> msg, threw |-> FALSE]
\* TypeError: Cannot read properties of undefined (or of null)
Thrown == [valid |-> FALSE, error |-> "TypeError", threw |-> TRUE]

\* the timestamp rule: Math.abs(currentTime - reportTime) > 3600000
\* (a comparison with NaN is false)
TimestampTooFar(ts, cur) ==
    LET reportTime == NewDate(ts)
    IN  /\ reportTime.valid
        /\ Abs(cur - reportTime.ms) > SkewTolerance

\* validateReportData testing data.executor only, not data.executor.name
validateReportDataNameUnchecked(data, cur) ==
    IF ~Truthy(data.body) \/ TypeOf(data.body) # "object"
    THEN Invalid("Invalid report data")
    ELSE IF ~Truthy(data.executor)
    THEN Invalid("Missing executor information")
    ELSE IF ~Truthy(data.system) \/ TypeOf(data.system) # "object"
    THEN Invalid("Invalid system information")
    ELSE IF ~Truthy(data.categories) \/ ~IsArray(data.categories)
    THEN Invalid("Invalid test categories")
    ELSE IF TypeOf(data.passes) # "number" \/ TypeOf(data.fails) # "number"
    THEN Invalid("Invalid test results")
    ELSE IF data.passes.n > SuspiciousPasses /\ data.fails.n = 0
    THEN Invalid("Suspicious test results detected")
    ELSE IF Truthy(data.timestamp) /\ TimestampTooFar(data.timestamp, cur)
    THEN Invalid("Invalid timestamp")
    ELSE Valid

\* validateReportData with >= in place of > in the rule on passes
validateReportDataAtThreshold(data, cur) ==
    IF ~Truthy(data.body) \/ TypeOf(data.body) # "object"
    THEN Invalid("Invalid report data")
    ELSE IF ~Truthy(data.executor) \/ ~Truthy(ExecutorName(data.executor))
    THEN Invalid("Missing executor information")
    ELSE IF ~Truthy(data.system) \/ TypeOf(data.system) # "object"
    THEN Invalid("Invalid system information")
    ELSE IF ~Truthy(data.categories) \/ ~IsArray(data.categories)
    THEN Invalid("Invalid test categories")
    ELSE IF TypeOf(data.passes) # "number" \/ TypeOf(data.fails) # "number"
    THEN Invalid("Invalid test results")
    ELSE IF data.passes.n >= SuspiciousPasses /\ data.fails.n = 0
    THEN Invalid("Suspicious test results detected")
    ELSE IF Truthy(data.timestamp) /\ TimestampTooFar(data.timestamp, cur)
    THEN Invalid("Invalid timestamp")
    ELSE Valid

\* validateReportData reading data.executor.name without testing
\* data.executor first
validateReportDataUnguarded(data, cur) ==
    IF ~Truthy(data.body) \/ TypeOf(data.body) # "object"
    THEN Invalid("Invalid report data")
    ELSE IF data.executor.t \in {"undefined", "null"}
    THEN Thrown
    ELSE IF ~Truthy(ExecutorName(data.executor))
    THEN Invalid("Missing executor information")
    ELSE IF ~Truthy(data.system) \/ TypeOf(data.system) # "object"
    THEN Invalid("Invalid system information")
    ELSE IF ~Truthy(data.categories) \/ ~IsArray(data.categories)
    THEN Invalid("Invalid test categories")
    ELSE IF TypeOf(data.passes) # "number" \/ TypeOf(data.fails) # "number"
    THEN Invalid("Invalid test results")
    ELSE IF data.passes.n > SuspiciousPasses /\ data.fails.n = 0
    THEN Invalid("Suspicious test results detected")
    ELSE IF Truthy(data.timestamp) /\ TimestampTooFar(data.timestamp, cur)
    THEN Invalid("Invalid timestamp")
    ELSE Valid

validateReportData(data, cur) ==
    IF ~Truthy(data.body) \/ TypeOf(data.body) # "object"
    THEN Invalid("Invalid report data")
    ELSE IF ~Truthy(data.executor) \/ ~Truthy(ExecutorName(data.executor))
    THEN Invalid("Missing executor information")
    ELSE IF ~Truthy(data.system) \/ TypeOf(data.system) # "object"
    THEN Invalid("Invalid system information")
    ELSE IF ~Truthy(data.categories) \/ ~IsArray(data.categories)
    THEN Invalid("Invalid test categories")
    ELSE IF TypeOf(data.passes) # "number" \/ TypeOf(data.fails) # "number"
    THEN Invalid("Invalid test results")
    ELSE IF data.passes.n > SuspiciousPasses /\ data.fails.n = 0
    THEN Invalid("Suspicious test results detected")
    ELSE IF Truthy(data.timestamp) /\ TimestampTooFar(data.timestamp, cur)
    THEN Invalid("Invalid timestamp")
    ELSE Valid

(* ------------------------------- reports ------------------------------- *)
\* MakeReport with the executor replaced by a default
MakeReportDefaultExecutor(id, data, ip, cur) ==
    [id |-> id,
     data |-> data,
     executor |-> ExecutorNamed("Unknown"),
     system |-> OrElse(data.system, Obj),
     player |-> OrElse(data.player, Obj),
     results |-> [total |-> OrElse(data.totalTests, Num(0)),
                  passed |-> OrElse(data.passes, Num(0)),
                  failed |-> OrElse(data.fails, Num(0)),
                  successRate |-> OrElse(data.successRate, Num(0))],
     categories |-> OrElse(data.categories, Arr),
     grade |-> OrElse(data.grade, Str("F")),
     duration |-> OrElse(data.duration, Num(0)),
     version |-> OrElse(data.version, Str("unknown")),
     createdAt |-> toISOString(cur),
     timestamp |-> OrElse(data.timestamp, Str(toISOString(cur))),
     ipAddress |-> ip]

\* MakeReport with results.total computed from passes and fails
MakeReportDerivedTotal(id, data, ip, cur) ==
    [id |-> id,
     data |-> data,
     executor |-> data.executor,
     system |-> OrElse(data.system, Obj),
     player |-> OrElse(data.player, Obj),
     results |-> [total |-> Num(data.passes.n + data.fails.n),
                  passed |-> OrElse(data.passes, Num(0)),
                  failed |-> OrElse(data.fails, Num(0)),
                  successRate |-> OrElse(data.successRate, Num(0))],
     categories |-> OrElse(data.categories, Arr),
     grade |-> OrElse(data.grade, Str("F")),
     duration |-> OrElse(data.duration, Num(0)),
     version |-> OrElse(data.version, Str("unknown")),
     createdAt |-> toISOString(cur),
     timestamp |-> OrElse(data.timestamp, Str(toISOString(cur))),
     ipAddress |-> ip]

\* the report object POST /report builds from an accepted body
MakeReport(id, data, ip, cur) ==
    [id |-> id,
     data |-> data,
     executor |-> data.executor,
     system |-> OrElse(data.system, Obj),
     player |-> OrElse(data.player, Obj),
     results |-> [total |-> OrElse(data.totalTests, Num(0)),
                  passed |-> OrElse(data.passes, Num(0)),
                  failed |-> OrElse(data.fails, Num(0)),
                  successRate |-> OrElse(data.successRate, Num(0))],
     categories |-> OrElse(data.categories, Arr),
     grade |-> OrElse(data.grade, Str("F")),
     duration |-> OrElse(data.duration, Num(0)),
     version |-> OrElse(data.version, Str("unknown")),
     createdAt |-> toISOString(cur),
     timestamp |-> OrElse(data.timestamp, Str(toISOString(cur))),
     ipAddress |-> ip]

\* a placeholder where no report is held
NoReport == MakeReport("", EmptyBody, "", 0)

IdsOf(store) == { store[i].id : i \in 1..Len(store) }

\* reports.find(r => r.id === id): the index of the first match, 0 if none
FindIndex(store, id) ==
    IF \E i \in 1..Len(store) : store[i].id = id
    THEN CHOOSE i \in 1..Len(store) :
             /\ store[i].id = id
             /\ \A j \in 1..(i - 1) : store[j].id # id
    ELSE 0

(* ------------------------- identifier generator ------------------------ *)
IdString(k) == "NEBULA0" \o ToString(k)
IdSpace == { IdString(k) : k \in 1..NumIds }

\* generateId over the random draws it makes: the first draw that no stored
\* report carries; when the recursion outlives the call stack, a RangeError
RECURSIVE generateIdFrom(_, _, _)
generateIdFrom(draws, k, store) ==
    IF k > Len(draws)
    THEN [ok |-> FALSE, id |-> ""]
    ELSE IF FindIndex(store, draws[k]) # 0
    THEN generateIdFrom(draws, k + 1, store)
    ELSE [ok |-> TRUE, id |-> draws[k]]

\* generateId without the uniqueness test
generateIdNoCheck(draws, store) == [ok |-> TRUE, id |-> draws[1]]

generateId(draws, store) == generateIdFrom(draws, 1, store)

(* --------------------------- the file's text --------------------------- *)
EndToken == [end |-> TRUE, obj |-> FALSE, rep |-> NoReport]
RepToken(r) == [end |-> FALSE, obj |-> FALSE, rep |-> r]
\* the text {} : JSON that is no array
ObjectToken == [end |-> FALSE, obj |-> TRUE, rep |-> NoReport]

\* JSON.stringify(reports, null, 2)
Stringify(store) ==
    [i \in 1..(Len(store) + 1) |->
        IF i <= Len(store) THEN RepToken(store[i]) ELSE EndToken]

\* JSON.parse(text): the array of a text that is one closed array, the object
\* of the text {}, and a SyntaxError otherwise
JSONParse(text) ==
    IF text = <<ObjectToken>>
    THEN [ok |-> TRUE, array |-> FALSE, value |-> <<>>]
    ELSE IF /\ Len(text) >= 1
            /\ text[Len(text)].end
            /\ \A i \in 1..(Len(text) - 1) : ~text[i].end /\ ~text[i].obj
    THEN [ok |-> TRUE, array |-> TRUE,
          value |-> [i \in 1..(Len(text) - 1) |-> text[i].rep]]
    ELSE [ok |-> FALSE, array |-> FALSE, value |-> <<>>]

\* a write of `text` at offset 0 of a file holding `old`
Overlay(old, text) ==
    [i \in 1..(IF Len(old) > Len(text) THEN Len(old) ELSE Len(text)) |->
        IF i <= Len(text) THEN text[i] ELSE old[i]]

AbsentFile == [exists |-> FALSE, text |-> <<>>]
FileWith(text) == [exists |-> TRUE, text |-> text]

(* -------------------------------- state -------------------------------- *)
VARIABLES
    phase,      \* "boot", "loading" while startServer awaits loadReports,
                \* "listening" after app.listen, "exited" after process.exit
    reports,    \* let reports: the elements of the in-memory store
    storeKind,  \* what `reports` holds: "array", or "object" (no array)
    file,       \* reports.json
    now,        \* the wall clock new Date() reads
    req,        \* the POST /report requests, each at its position
    shutdown    \* the saveReports call of the SIGTERM/SIGINT handler

vars == <<phase, reports, storeKind, file, now, req, shutdown>>

ClientIp == "203.0.113.7"
Requests == 1..MaxReq

IdleReq ==
    [pc |-> "idle", payload |-> EmptyBody, status |-> 0, error |-> "",
     id |-> "", createdAt |-> "", idsBefore |-> {}, snapshot |-> <<>>,
     w |-> "none", notif |-> "none", sinkCalls |-> 0]

NoResp ==
    [op |-> "none", id |-> "", status |-> 0, ctype |-> "", error |-> "",
     report |-> NoReport, list |-> <<>>, count |-> 0]

(* ------------------------------ startup -------------------------------- *)
\* reports a previous run of the server has written
OldReport(k, name, ms) == MakeReport(IdString(k), GoodBody(name, 3, 1), ClientIp, ms)
OldA == OldReport(1, "Ann", ClockStart - 1)
OldB == OldReport(2, "Ben", ClockStart - 2)

\* what reports.json may hold when the process starts
InitFiles ==
    { AbsentFile,
      FileWith(<<>>),
      FileWith(Stringify(<<>>)),
      FileWith(Stringify(<<OldA>>)),
      FileWith(Stringify(<<OldA, OldB>>)) }

\* no signal handler has run
NoShutdown == [w |-> "none", snapshot |-> <<>>, atSignal |-> <<>>]

Init ==
    /\ phase = "boot"
    /\ reports = <<>>
    /\ storeKind = "array"
    /\ shutdown = NoShutdown
    /\ file \in InitFiles
    /\ now = ClockStart
    /\ req = [r \in Requests |-> IdleReq]

\* loadReports: the elements of the store read from the file
loadReports(f) ==
    IF f.exists
    THEN LET parsed == JSONParse(f.text)
         IN  IF parsed.ok THEN parsed.value ELSE <<>>
    ELSE <<>>

\* loadReports: whether the store read from the file is an array; whatever
\* JSON.parse returns is assigned to `reports`
loadedKind(f) ==
    IF f.exists /\ JSONParse(f.text).ok /\ ~JSONParse(f.text).array
    THEN "object"
    ELSE "array"

\* startServer is called: loadReports runs up to its await of fs.readFile
StartServer ==
    /\ phase = "boot"
    /\ phase' = "loading"
    /\ UNCHANGED <<reports, storeKind, file, now, req, shutdown>>

\* the await of loadReports returns, and startServer calls app.listen
Listen ==
    /\ phase = "loading"
    /\ reports' = loadReports(file)
    /\ storeKind' = loadedKind(file)
    /\ phase' = "listening"
    /\ UNCHANGED <<file, now, req, shutdown>>

\* the server takes requests: app.listen has been called
AcceptingWhileLoading == phase \in {"loading", "listening"}

Accepting == phase = "listening"

(* --------------------------- POST /report ------------------------------ *)
\* the bodies a client posts at clock reading cur
Payloads(cur) ==
    { GoodBody("Bob", 10, 2),
      [GoodBody("Eve", 5, 0) EXCEPT !.timestamp = Str(toISOString(cur)),
                                    !.totalTests = Num(5), !.grade = Str("A")],
      EmptyBody,
      GoodBody("Bob", 2000, 0),
      [GoodBody("Bob", 10, 2) EXCEPT
          !.timestamp = Num(cur - (SkewTolerance + 1))] }

\* values a client may send for each field the validator reads
ExecutorChoices ==
    { NoExecutor, Executor(Null, Undef), Executor(Str("Bob"), Undef),
      Executor(Obj, Undef), ExecutorNamed(""), ExecutorNamed("Bob") }
SystemChoices == { Undef, Str("pc"), Arr, Obj }
CategoriesChoices == { Undef, Obj, Arr }
PassesChoices ==
    { Undef, Str("10"), Num(0), Num(SuspiciousPasses),
      Num(SuspiciousPasses + 1) }
FailsChoices == { Undef, Num(0), Num(1) }
TimestampChoices(cur) ==
    { Undef, Null, Num(0), Str("yesterday"),
      Num(cur), Str(toISOString(cur)),
      Num(cur - SkewTolerance), Num(cur + SkewTolerance),
      Num(cur - (SkewTolerance + 1)),
      Str(toISOString(cur + SkewTolerance + 1)) }

\* request bodies that are no JSON object: nothing, null, a string, an array
OddBodies ==
    { [EmptyBody EXCEPT !.body = b] : b \in {Undef, Null, Str("report"), Arr} }

\* JSON objects with every combination of the fields the validator reads
RuleBodies(cur) ==
    { [EmptyBody EXCEPT !.executor = e, !.system = s, !.categories = c,
                        !.passes = p, !.fails = f, !.timestamp = t] :
        e \in ExecutorChoices, s \in SystemChoices, c \in CategoriesChoices,
        p \in PassesChoices, f \in FailsChoices, t \in TimestampChoices(cur) }

\* accepted bodies with every combination of the optional result fields
FoldBodies ==
    { [GoodBody("Eve", p, 2) EXCEPT !.totalTests = tt, !.successRate = sr,
                                    !.duration = du, !.grade = gr,
                                    !.version = ve] :
        p \in {0, 10},
        tt \in {Undef, Num(0), Num(40)}, sr \in {Undef, Num(75)},
        du \in {Undef, Num(9)}, gr \in {Undef, Str("A")},
        ve \in {Undef, Str("2.1")} }

WidePayloads(cur) == OddBodies \cup RuleBodies(cur) \cup FoldBodies

Answer(q, status, error) ==
    [q EXCEPT !.pc = "done", !.status = status, !.error = error]

\* IngestOutcome with the report pushed before the validation result is read
IngestOutcomePushFirst(q, data, draws, store, cur) ==
    LET validation == validateReportData(data, cur)
        generated == generateId(draws, store)
        report == MakeReport(generated.id, data, ClientIp, cur)
        asked == [q EXCEPT !.payload = data, !.idsBefore = IdsOf(store)]
    IN  IF ~generated.ok
        THEN [req |-> Answer(asked, 500, "Internal server error"),
              reports |-> store]
        ELSE IF ~validation.valid
        THEN [req |-> Answer(asked, 400, validation.error),
              reports |-> Append(store, report)]
        ELSE [req |-> [asked EXCEPT !.pc = "saving", !.id = generated.id,
                                    !.createdAt = report.createdAt,
                                    !.snapshot = Stringify(Append(store, report)),
                                    !.w = "pending"],
              reports |-> Append(store, report)]

\* IngestOutcome with reports.unshift in place of reports.push
IngestOutcomeUnshift(q, data, draws, store, cur) ==
    LET validation == validateReportData(data, cur)
        generated == generateId(draws, store)
        report == MakeReport(generated.id, data, ClientIp, cur)
        asked == [q EXCEPT !.payload = data, !.idsBefore = IdsOf(store)]
    IN  IF ~validation.valid
        THEN [req |-> Answer(asked, 400, validation.error), reports |-> store]
        ELSE IF ~generated.ok
        THEN [req |-> Answer(asked, 500, "Internal server error"),
              reports |-> store]
        ELSE [req |-> [asked EXCEPT !.pc = "saving", !.id = generated.id,
                                    !.createdAt = report.createdAt,
                                    !.snapshot = Stringify(<<report>> \o store),
                                    !.w = "pending"],
              reports |-> <<report>> \o store]

\* IngestOutcome pushing the report before createdAt and ipAddress are set
IngestOutcomePartial(q, data, draws, store, cur) ==
    LET validation == validateReportData(data, cur)
        generated == generateId(draws, store)
        report == MakeReport(generated.id, data, ClientIp, cur)
        asked == [q EXCEPT !.payload = data, !.idsBefore = IdsOf(store)]
    IN  IF validation.threw
        THEN [req |-> Answer(asked, 500, "Internal server error"),
              reports |-> store]
        ELSE IF ~validation.valid
        THEN [req |-> Answer(asked, 400, validation.error), reports |-> store]
        ELSE IF ~generated.ok
        THEN [req |-> Answer(asked, 500, "Internal server error"),
              reports |-> store]
        ELSE [req |-> [asked EXCEPT !.pc = "saving", !.id = generated.id,
                                    !.createdAt = report.createdAt,
                                    !.snapshot = Stringify(Append(store, report)),
                                    !.w = "pending"],
              reports |-> Append(store, [report EXCEPT !.createdAt = "",
                                                       !.ipAddress = ""])]

\* IngestOutcome with the serialized text holding the new report and the
\* push left out
IngestOutcomeUnpushed(q, data, draws, store, cur) ==
    LET validation == validateReportData(data, cur)
        generated == generateId(draws, store)
        report == MakeReport(generated.id, data, ClientIp, cur)
        asked == [q EXCEPT !.payload = data, !.idsBefore = IdsOf(store)]
    IN  IF validation.threw
        THEN [req |-> Answer(asked, 500, "Internal server error"),
              reports |-> store]
        ELSE IF ~validation.valid
        THEN [req |-> Answer(asked, 400, validation.error), reports |-> store]
        ELSE IF ~generated.ok
        THEN [req |-> Answer(asked, 500, "Internal server error"),
              reports |-> store]
        ELSE [req |-> [asked EXCEPT !.pc = "saving", !.id = generated.id,
                                    !.createdAt = report.createdAt,
                                    !.snapshot = Stringify(Append(store, report)),
                                    !.w = "pending"],
              reports |-> store]

\* the handler up to its first await: validation, id, report, push, and the
\* call of saveReports, which serializes the store before fs.writeFile starts;
\* the new Date() calls of this synchronous run read the same instant cur;
\* an exception in this run is caught and answered 500
IngestOutcome(q, data, draws, store, cur) ==
    LET validation == validateReportData(data, cur)
        generated == generateId(draws, store)
        report == MakeReport(generated.id, data, ClientIp, cur)
        asked == [q EXCEPT !.payload = data, !.idsBefore = IdsOf(store)]
    IN  IF validation.threw
        THEN [req |-> Answer(asked, 500, "Internal server error"),
              reports |-> store]
        ELSE IF ~validation.valid
        THEN [req |-> Answer(asked, 400, validation.error), reports |-> store]
        ELSE IF ~generated.ok
        THEN [req |-> Answer(asked, 500, "Internal server error"),
              reports |-> store]
        ELSE [req |-> [asked EXCEPT !.pc = "saving", !.id = generated.id,
                                    !.createdAt = report.createdAt,
                                    !.snapshot = Stringify(Append(store, report)),
                                    !.w = "pending"],
              reports |-> Append(store, report)]

\* the handler when `reports` is no array: generateId calls reports.find,
\* which is not a function, and the TypeError is caught and answered 500
IngestOnObject(q, data, store, cur) ==
    LET validation == validateReportData(data, cur)
        asked == [q EXCEPT !.payload = data, !.idsBefore = IdsOf(store)]
    IN  IF validation.threw
        THEN [req |-> Answer(asked, 500, "Internal server error"),
              reports |-> store]
        ELSE IF ~validation.valid
        THEN [req |-> Answer(asked, 400, validation.error), reports |-> store]
        ELSE [req |-> Answer(asked, 500, "Internal server error"),
              reports |-> store]

PostReport(r) ==
    /\ Accepting
    /\ req[r].pc = "idle"
    /\ \A k \in 1..(r - 1) : req[k].pc # "idle"
    /\ \E data \in Payloads(now), draws \in [1..MaxStack -> IdSpace] :
          LET out == IF storeKind = "array"
                     THEN IngestOutcome(req[r], data, draws, reports, now)
                     ELSE IngestOnObject(req[r], data, reports, now)
          IN  /\ req' = [req EXCEPT ![r] = out.req]
              /\ reports' = out.reports
    /\ UNCHANGED <<storeKind, shutdown, phase, file, now>>

\* POST /report of any body, as the first request the server receives
PostReportWide(r) ==
    /\ Accepting
    /\ \A k \in Requests : req[k].pc = "idle"
    /\ \A k \in 1..(r - 1) : req[k].pc # "idle"
    /\ \E data \in WidePayloads(now), draws \in [1..MaxStack -> IdSpace] :
          LET out == IF storeKind = "array"
                     THEN IngestOutcome(req[r], data, draws, reports, now)
                     ELSE IngestOnObject(req[r], data, reports, now)
          IN  /\ req' = [req EXCEPT ![r] = out.req]
              /\ reports' = out.reports
    /\ UNCHANGED <<storeKind, shutdown, phase, file, now>>

(* ------------------------ fs.writeFile, step by step ------------------- *)
\* open with flag 'w': the file is created or truncated
FsOpen(r) ==
    /\ req[r].pc = "saving" /\ req[r].w = "pending"
    /\ file' = FileWith(<<>>)
    /\ req' = [req EXCEPT ![r].w = "opened"]
    /\ UNCHANGED <<storeKind, shutdown, phase, reports, now>>

\* open fails (EACCES, EMFILE, ...): the file is untouched
FsOpenFail(r) ==
    /\ req[r].pc = "saving" /\ req[r].w = "pending"
    /\ req' = [req EXCEPT ![r].w = "failed"]
    /\ UNCHANGED <<storeKind, shutdown, phase, reports, file, now>>

\* the data is written through this call's own descriptor, from offset 0
FsWrite(r) ==
    /\ req[r].pc = "saving" /\ req[r].w = "opened"
    /\ file' = FileWith(Overlay(file.text, req[r].snapshot))
    /\ req' = [req EXCEPT ![r].w = "written"]
    /\ UNCHANGED <<storeKind, shutdown, phase, reports, now>>

\* the write fails (ENOSPC, EIO, ...) after the truncation
FsWriteFail(r) ==
    /\ req[r].pc = "saving" /\ req[r].w = "opened"
    /\ req' = [req EXCEPT ![r].w = "failed"]
    /\ UNCHANGED <<storeKind, shutdown, phase, reports, file, now>>

\* ResumeOutcome with the webhook call placed before the test of `saved`
ResumeOutcomeNotifyFirst(q) ==
    [Answer(q, IF q.w = "failed" THEN 500 ELSE 201,
            IF q.w = "failed" THEN "Failed to save report" ELSE "")
        EXCEPT !.notif = "inflight", !.sinkCalls = q.sinkCalls + 1]

\* ResumeOutcome with the webhook call awaited before the response is sent
ResumeOutcomeAwaitWebhook(q) ==
    IF q.w = "failed"
    THEN Answer(q, 500, "Failed to save report")
    ELSE [q EXCEPT !.pc = "notifying", !.notif = "inflight",
                   !.sinkCalls = q.sinkCalls + 1]

\* ResumeOutcome with the result of saveReports ignored
ResumeOutcomeIgnoreSaved(q) ==
    [Answer(q, 201, "") EXCEPT !.notif = "inflight",
                               !.sinkCalls = q.sinkCalls + 1]

\* the handler after await saveReports(): 500 when the write failed, else the
\* webhook call is started (not awaited) and 201 is sent
ResumeOutcome(q) ==
    IF q.w = "failed"
    THEN Answer(q, 500, "Failed to save report")
    ELSE [Answer(q, 201, "") EXCEPT !.notif = "inflight",
                                    !.sinkCalls = q.sinkCalls + 1]

PostReportResume(r) ==
    /\ req[r].pc = "saving" /\ req[r].w \in {"written", "failed"}
    /\ req' = [req EXCEPT ![r] = ResumeOutcome(req[r])]
    /\ UNCHANGED <<storeKind, shutdown, phase, reports, file, now>>

(* ------------------------- sendToDiscordWebhook ------------------------ *)
\* axios.post resolves
WebhookDelivered(r) ==
    /\ req[r].notif = "inflight"
    /\ req' = [req EXCEPT ![r].notif = "delivered"]
    /\ UNCHANGED <<storeKind, shutdown, phase, reports, file, now>>

\* WebhookFailed with the call repeated after a rejection
WebhookFailedRetry(r) ==
    /\ req[r].notif = "inflight"
    /\ req' = [req EXCEPT ![r].sinkCalls = @ + 1]
    /\ UNCHANGED <<storeKind, shutdown, phase, reports, file, now>>

\* axios.post rejects: the catch block logs and returns
WebhookFailed(r) ==
    /\ req[r].notif = "inflight"
    /\ req' = [req EXCEPT ![r].notif = "failed"]
    /\ UNCHANGED <<storeKind, shutdown, phase, reports, file, now>>

(* ------------------------------- reads --------------------------------- *)
\* The read handlers assign no variable of the program: what they send is a
\* function of the store at the moment they run, given by the ...Response
\* operators.
\* GET /report/:id/json
GetJsonResponse(store, id) ==
    LET i == FindIndex(store, id)
    IN  IF i = 0
        THEN [NoResp EXCEPT !.op = "json", !.id = id, !.status = 404,
                            !.ctype = "json", !.error = "Report not found"]
        ELSE [NoResp EXCEPT !.op = "json", !.id = id, !.status = 200,
                            !.ctype = "json", !.report = store[i]]

\* GET /report/:id
GetHtmlResponse(store, id) ==
    LET i == FindIndex(store, id)
    IN  IF i = 0
        THEN [NoResp EXCEPT !.op = "html", !.id = id, !.status = 404,
                            !.ctype = "html", !.error = "Report Not Found"]
        ELSE [NoResp EXCEPT !.op = "html", !.id = id, !.status = 200,
                            !.ctype = "html", !.report = store[i]]

\* the summary projection of GET /reports
Summary(r) ==
    [id |-> r.id, executor |-> ExecutorName(r.executor),
     successRate |-> r.results.successRate, grade |-> r.grade,
     totalTests |-> r.results.total, passed |-> r.results.passed,
     duration |-> r.duration, createdAt |-> r.createdAt,
     ipAddress |-> r.ipAddress]

\* SortsAfter with the operands of the subtraction exchanged
SortsAfterAscending(a, b) ==
    NewDate(Str(a.createdAt)).ms > NewDate(Str(b.createdAt)).ms

\* the comparator's sign: new Date(b.createdAt) - new Date(a.createdAt) > 0
SortsAfter(a, b) == NewDate(Str(b.createdAt)).ms > NewDate(Str(a.createdAt)).ms

\* Array.prototype.sort with that comparator (stable): insertion of x
RECURSIVE InsertSorted(_, _)
InsertSorted(sorted, x) ==
    IF sorted = <<>>
    THEN <<x>>
    ELSE IF SortsAfter(sorted[Len(sorted)], x)
    THEN Append(InsertSorted(SubSeq(sorted, 1, Len(sorted) - 1), x),
                sorted[Len(sorted)])
    ELSE Append(sorted, x)

RECURSIVE SortNewestFirst(_)
SortNewestFirst(list) ==
    IF list = <<>>
    THEN <<>>
    ELSE InsertSorted(SortNewestFirst(SubSeq(list, 1, Len(list) - 1)),
                      list[Len(list)])

ListResponse(store) ==
    [NoResp EXCEPT !.op = "list", !.status = 200, !.ctype = "json",
                   !.list = SortNewestFirst([i \in 1..Len(store) |->
                                                Summary(store[i])])]

HealthResponse(store) ==
    [NoResp EXCEPT !.op = "health", !.status = 200, !.ctype = "json",
                   !.count = Len(store)]

\* a read handler when `reports` is no array: reports.find and reports.map
\* are not functions, and the TypeError is caught and answered 500
ServerError ==
    [NoResp EXCEPT !.status = 500, !.ctype = "json",
                   !.error = "Internal server error"]

GetReportJson(id) ==
    /\ Accepting
    /\ (IF storeKind = "array"
        THEN GetJsonResponse(reports, id) ELSE ServerError).status
           \in {200, 404, 500}
    /\ UNCHANGED vars

GetReportHtml(id) ==
    /\ Accepting
    /\ (IF storeKind = "array"
        THEN GetHtmlResponse(reports, id) ELSE ServerError).status
           \in {200, 404, 500}
    /\ UNCHANGED vars

\* GET /reports sorting the store itself (reports.sort) in place of the
\* array that reports.map returns
GetReportsSortInPlace ==
    /\ Accepting
    /\ reports' = SortNewestFirst(reports)
    /\ UNCHANGED <<storeKind, shutdown, phase, file, now, req>>

GetReports ==
    /\ Accepting
    /\ (IF storeKind = "array"
        THEN ListResponse(reports) ELSE ServerError).status
           \in {200, 404, 500}
    /\ UNCHANGED vars

GetHealth ==
    /\ Accepting
    /\ HealthResponse(reports).status \in {200, 404}
    /\ UNCHANGED vars

(* ------------------------------ the clock ------------------------------ *)
\* time passes
Tick ==
    /\ now < ClockStart + MaxTick
    /\ now' = now + 1
    /\ UNCHANGED <<storeKind, shutdown, phase, reports, file, req>>

\* the wall clock is set back (NTP step, operator)
ClockSetBack ==
    /\ now > ClockStart
    /\ now' \in ClockStart..(now - 1)
    /\ UNCHANGED <<storeKind, shutdown, phase, reports, file, req>>

(* ------------------------- SIGTERM and SIGINT -------------------------- *)
\* the text saveReports serializes: JSON.stringify(reports, null, 2)
StoreText == IF storeKind = "array" THEN Stringify(reports) ELSE <<ObjectToken>>

\* the first SIGTERM or SIGINT: its handler calls saveReports, which
\* serializes the store and starts fs.writeFile
Signal ==
    /\ phase \in {"loading", "listening"}
    /\ shutdown.w = "none"
    /\ shutdown' = [w |-> "pending", snapshot |-> StoreText,
                    atSignal |-> reports]
    /\ UNCHANGED <<phase, reports, storeKind, file, now, req>>

\* the handler's fs.writeFile, step by step as for an ingest
ShutdownOpen ==
    /\ phase # "exited" /\ shutdown.w = "pending"
    /\ file' = FileWith(<<>>)
    /\ shutdown' = [shutdown EXCEPT !.w = "opened"]
    /\ UNCHANGED <<phase, reports, storeKind, now, req>>

ShutdownOpenFail ==
    /\ phase # "exited" /\ shutdown.w = "pending"
    /\ shutdown' = [shutdown EXCEPT !.w = "failed"]
    /\ UNCHANGED <<phase, reports, storeKind, file, now, req>>

ShutdownWrite ==
    /\ phase # "exited" /\ shutdown.w = "opened"
    /\ file' = FileWith(Overlay(file.text, shutdown.snapshot))
    /\ shutdown' = [shutdown EXCEPT !.w = "written"]
    /\ UNCHANGED <<phase, reports, storeKind, now, req>>

ShutdownWriteFail ==
    /\ phase # "exited" /\ shutdown.w = "opened"
    /\ shutdown' = [shutdown EXCEPT !.w = "failed"]
    /\ UNCHANGED <<phase, reports, storeKind, file, now, req>>

\* what process.exit leaves of a request: a handler that has not answered
\* never does, and a webhook call in flight is dropped
Killed(q) ==
    [q EXCEPT !.pc = IF q.pc = "saving" THEN "killed" ELSE q.pc,
              !.notif = IF q.notif = "inflight" THEN "killed" ELSE q.notif]

\* the await of saveReports returns, true or false, and the handler calls
\* process.exit(0)
Exit ==
    /\ phase # "exited" /\ shutdown.w \in {"written", "failed"}
    /\ phase' = "exited"
    /\ req' = [r \in Requests |-> Killed(req[r])]
    /\ UNCHANGED <<reports, storeKind, file, now, shutdown>>

(* --------------------------- specification ----------------------------- *)
\* a run of the server that receives no signal
Next ==
    \/ StartServer
    \/ Listen
    \/ \E r \in Requests : PostReport(r)
    \/ \E r \in Requests : FsOpen(r)
    \/ \E r \in Requests : FsOpenFail(r)
    \/ \E r \in Requests : FsWrite(r)
    \/ \E r \in Requests : FsWriteFail(r)
    \/ \E r \in Requests : PostReportResume(r)
    \/ \E r \in Requests : WebhookDelivered(r)
    \/ \E r \in Requests : WebhookFailed(r)
    \/ \E id \in IdSpace : GetReportJson(id)
    \/ \E id \in IdSpace : GetReportHtml(id)
    \/ GetReports
    \/ GetHealth
    \/ Tick
    \/ ClockSetBack

Spec == Init /\ [][Next]_vars

\* one request of any body, on a server that found no file or one report
InitWide ==
    /\ Init
    /\ file \in {AbsentFile, FileWith(Stringify(<<OldA>>))}

NextWide ==
    \/ StartServer
    \/ Listen
    \/ \E r \in Requests :
          \/ PostReportWide(r)
          \/ FsOpen(r)
          \/ FsOpenFail(r)
          \/ FsWrite(r)
          \/ FsWriteFail(r)
          \/ PostReportResume(r)
          \/ WebhookDelivered(r)
          \/ WebhookFailed(r)
    \/ Tick
    \/ ClockSetBack

SpecWide == InitWide /\ [][NextWide]_vars

\* what reports.json may hold besides the above: JSON that is no array
ForeignFiles == { FileWith(<<ObjectToken>>) }

\* a run from start to exit, on a file of this program or of another
InitLife ==
    /\ phase = "boot"
    /\ reports = <<>>
    /\ storeKind = "array"
    /\ shutdown = NoShutdown
    /\ file \in ForeignFiles \cup {AbsentFile, FileWith(Stringify(<<OldA>>))}
    /\ now = ClockStart
    /\ req = [r \in Requests |-> IdleReq]

\* the steps of such a run, all within one reading of the clock
NextLife ==
    \/ StartServer
    \/ Listen
    \/ \E r \in Requests :
          \/ PostReport(r)
          \/ FsOpen(r)
          \/ FsOpenFail(r)
          \/ FsWrite(r)
          \/ FsWriteFail(r)
          \/ PostReportResume(r)
          \/ WebhookDelivered(r)
          \/ WebhookFailed(r)
    \/ Signal
    \/ ShutdownOpen
    \/ ShutdownOpenFail
    \/ ShutdownWrite
    \/ ShutdownWriteFail
    \/ Exit

SpecLife == InitLife /\ [][NextLife]_vars

(* ------------------------------ properties ----------------------------- *)
Settled(q) == q.pc \in {"idle", "done"}
ParsedFile == JSONParse(file.text)
MirrorHoldsStore == file.exists /\ ParsedFile.ok /\ ParsedFile.value = reports
CreatedMs(r) == NewDate(Str(r.createdAt)).ms

\* C1: an ingest of an accepted payload whose file write succeeded is answered
\* 201 with an id that no stored report carried before the call, and
\* GET /report/{id}/json then returns a report whose executor.name is the
\* submitted executor.name.
C1_IngestReturnsFreshIdAndGetFindsIt ==
    \A r \in Requests :
        (req[r].pc = "done" /\ req[r].w = "written") =>
            LET got == GetJsonResponse(reports, req[r].id)
            IN  /\ req[r].status = 201
                /\ req[r].id \in IdSpace
                /\ req[r].id \notin req[r].idsBefore
                /\ got.status = 200
                /\ got.report.id = req[r].id
                /\ got.report.data = req[r].payload
                /\ ExecutorName(got.report.executor)
                       = ExecutorName(req[r].payload.executor)

C1_Witness ==
    \E r \in Requests :
        /\ req[r].status = 201
        /\ req[r].idsBefore # {}
        /\ Len(reports) >= 2

\* C2: in every reachable state the ids of the stored reports are pairwise
\* distinct, also while several ingests are in flight.
C2_StoredIdsDistinct ==
    \A i, j \in 1..Len(reports) : i # j => reports[i].id # reports[j].id

C2_Witness ==
    /\ Len(reports) >= 3
    /\ \E r, k \in Requests :
          r # k /\ req[r].pc = "saving" /\ req[k].pc = "saving"

\* the step that answers a rejected payload, and the state it leaves
C3_RejectedStep ==
    \A r \in Requests :
        ( /\ req[r].pc = "idle"
          /\ req'[r].pc # "idle"
          /\ ~validateReportData(req'[r].payload, now).valid )
        => /\ req'[r].pc = "done"
           /\ req'[r].status = 400
           /\ req'[r].error = validateReportData(req'[r].payload, now).error
           /\ req'[r].id = ""
           /\ req'[r].w = "none"
           /\ req'[r].notif = "none"
           /\ req'[r].sinkCalls = 0
           /\ reports' = reports
           /\ file' = file
           /\ \A k \in Requests \ {r} : req'[k] = req[k]

C3_RejectedStaysInert ==
    \A r \in Requests :
        req[r].status = 400 =>
            /\ req[r].pc = "done"
            /\ req[r].w = "none"
            /\ req[r].sinkCalls = 0
            /\ req[r].id \notin IdsOf(reports)

\* C3: a payload the validator rejects is answered 400 with the validator's
\* error in the same step, and that step changes nothing else: the store and
\* the file are as before, no write is started, no id is generated and the
\* webhook is not called, then or later.
C3_RejectionChangesNothing ==
    []C3_RejectedStaysInert /\ [][C3_RejectedStep]_vars

C3_Witness ==
    \E r, k \in Requests :
        /\ req[r].status = 400
        /\ req[k].pc = "saving"
        /\ Len(reports) >= 2

\* C4: once two or more ingests whose file writes all succeeded have
\* completed, the file holds every report of the in-memory store.
C4_NoReportLostOnDisk ==
    ( /\ \A r \in Requests : Settled(req[r])
      /\ \A r \in Requests : req[r].w \in {"none", "written"}
      /\ Cardinality({r \in Requests : req[r].w = "written"}) >= 2 )
    => MirrorHoldsStore

\* C5: an ingest whose file write failed is answered 500 with the error
\* "Failed to save report", the webhook is not called for it, and its report
\* stays in the store, where GET /report/{id}/json and GET /reports return it.
C5_FailedWriteKeepsReport ==
    \A r \in Requests :
        req[r].w = "failed" =>
            LET got == GetJsonResponse(reports, req[r].id)
                listed == ListResponse(reports).list
            IN  /\ req[r].sinkCalls = 0
                /\ req[r].notif = "none"
                /\ req[r].pc = "done" =>
                      /\ req[r].status = 500
                      /\ req[r].error = "Failed to save report"
                /\ got.status = 200
                /\ got.report.id = req[r].id
                /\ got.report.data = req[r].payload
                /\ \E i \in 1..Len(listed) : listed[i].id = req[r].id

C5_Witness ==
    \E r \in Requests :
        /\ req[r].pc = "done"
        /\ req[r].w = "failed"
        /\ req[r].status = 500
        /\ ~MirrorHoldsStore

C7_SinkCalls ==
    \A r \in Requests :
        /\ req[r].sinkCalls \in {0, 1}
        /\ req[r].sinkCalls = 1 <=> req[r].status = 201
        /\ req[r].sinkCalls = 1 <=> req[r].notif # "none"
        /\ req[r].status = 201 <=> (req[r].pc = "done" /\ req[r].w = "written")

C7_SinkStep ==
    \A r \in Requests :
        /\ req'[r].sinkCalls # req[r].sinkCalls =>
              /\ req[r].w = "written"
              /\ req[r].sinkCalls = 0
              /\ validateReportData(req[r].payload,
                                    CreatedMs(req[r])).valid
        /\ req[r].notif \in {"failed", "delivered"} => req'[r] = req[r]

\* C7: the webhook is called exactly once for an ingest whose validation and
\* file write both succeeded, in the step after that write has completed,
\* and never for a rejected ingest or one whose write failed; a call that
\* failed is not repeated.
C7_NotifiedExactlyOnce == []C7_SinkCalls /\ [][C7_SinkStep]_vars

C7_Witness ==
    \E r, k \in Requests :
        /\ req[r].notif = "failed" /\ req[r].sinkCalls = 1
        /\ req[k].status \in {400, 500} /\ req[k].sinkCalls = 0

\* the response while the webhook call is in flight, and its completion
C8_RespondedWhileInFlight ==
    \A r \in Requests :
        req[r].notif = "inflight" => (req[r].pc = "done" /\ req[r].status = 201)

C8_CompletionStep ==
    \A r \in Requests :
        (req[r].notif = "inflight" /\ req'[r].notif # "inflight") =>
            /\ req'[r].notif \in {"delivered", "failed"}
            /\ req'[r] = [req[r] EXCEPT !.notif = req'[r].notif]
            /\ req'[r].status = 201
            /\ reports' = reports
            /\ file' = file

\* C8: the 201 response is sent in the step that starts the webhook call,
\* before the call completes, and the completion of the call, with either
\* outcome, changes neither the response nor the store nor the file.
C8_FireAndForget == []C8_RespondedWhileInFlight /\ [][C8_CompletionStep]_vars

C8_Witness ==
    \E r, k \in Requests :
        /\ req[r].status = 201 /\ req[r].notif = "inflight"
        /\ req[k].status = 201 /\ req[k].notif = "failed"

\* what one step may do to the store
C9_Step ==
    phase = "listening" =>
        /\ Len(reports') >= Len(reports)
        /\ SubSeq(reports', 1, Len(reports)) = reports
        /\ \A r \in Requests :
              (req[r].pc = "idle" /\ req'[r].pc = "saving") =>
                  /\ Len(reports') = Len(reports) + 1
                  /\ reports'[Len(reports')].id = req'[r].id
        /\ reports' # reports =>
              \E r \in Requests : req[r].pc = "idle" /\ req'[r].pc = "saving"

\* C9: after startup every step leaves the stored reports as they are and
\* where they are; the only change is that an accepted ingest adds exactly one
\* report at the end.
C9_AppendOnly == [][C9_Step]_vars

C9_Witness ==
    /\ Len(reports) >= 3
    /\ reports[1] = OldA
    /\ \E r \in Requests : req[r].pc = "done" /\ req[r].w = "failed"

\* C10: the sequence GET /reports returns holds one summary per stored report
\* and is sorted by createdAt descending, whatever the storage order.
C10_ListSortedNewestFirst ==
    LET listed == ListResponse(reports).list
    IN  /\ Len(listed) = Len(reports)
        /\ \A i \in 1..(Len(listed) - 1) :
              NewDate(Str(listed[i].createdAt)).ms
                  >= NewDate(Str(listed[i + 1].createdAt)).ms

C10_Witness ==
    /\ phase = "listening"
    /\ Len(reports) >= 3
    /\ \E i \in 1..(Len(reports) - 1) :
          CreatedMs(reports[i]) < CreatedMs(reports[i + 1])
    /\ \E i \in 1..(Len(reports) - 1) :
          CreatedMs(reports[i]) > CreatedMs(reports[i + 1])

\* the step in which a request's fs.writeFile completes, and what
\* loadReports then reads from the file: the store as that request saved it
C11_WriteStep ==
    \A r \in Requests :
        (req[r].w = "opened" /\ req'[r].w = "written") =>
            loadReports(file')
                = SubSeq(reports, 1, FindIndex(reports, req[r].id))

\* C11: when the file write of an ingest completes (it is then the last write
\* to have completed), loadReports on the file yields the reports of the
\* store that ingest saved, field for field.
C11_RoundTripAcrossRestart == [][C11_WriteStep]_vars

\* a request is answered or taken up in this step
Handled(r) == req[r].pc = "idle" /\ req'[r].pc # "idle"

\* the body is a JSON object or array, and its executor, or the name of its
\* executor, is absent or empty
LacksExecutorName(data) ==
    /\ data.body.t \in {"object", "array"}
    /\ \/ data.executor.t \in {"undefined", "null"}
       \/ data.executor.t # "object"
       \/ data.executor.name.t \in {"undefined", "null"}
       \/ data.executor.name = Str("")

C12_Step ==
    \A r \in Requests :
        (Handled(r) /\ LacksExecutorName(req'[r].payload)) =>
            /\ req'[r].pc = "done"
            /\ req'[r].status = 400
            /\ req'[r].error = "Missing executor information"
            /\ Len(reports') = Len(reports)

\* C12: every JSON body whose executor is absent, or whose executor.name is
\* absent or empty, is answered 400 'Missing executor information', whatever
\* its other fields hold, and the store keeps its size.
C12_MissingExecutorRejected == [][C12_Step]_vars

C12_Witness ==
    \E r \in Requests :
        /\ req[r].status = 400
        /\ req[r].error = "Missing executor information"
        /\ req[r].payload.executor = ExecutorNamed("")
        /\ req[r].payload.system = Obj
        /\ req[r].payload.categories = Arr
        /\ req[r].payload.passes = Num(0)
        /\ Len(reports) = 1

\* the body satisfies every rule of the validator but the one on passes and
\* fails: with unsuspicious counts in their place it is accepted
OtherRulesHold(data, cur) ==
    /\ data.passes.t = "number"
    /\ data.fails.t = "number"
    /\ validateReportData([data EXCEPT !.passes = Num(0), !.fails = Num(1)],
                          cur).valid

C13_Step ==
    \A r \in Requests :
        (Handled(r) /\ OtherRulesHold(req'[r].payload, now)) =>
            LET data == req'[r].payload
                implausible ==
                    data.passes.n > SuspiciousPasses /\ data.fails.n = 0
            IN  /\ implausible =>
                      /\ req'[r].status = 400
                      /\ req'[r].error = "Suspicious test results detected"
                /\ ~implausible => req'[r].status # 400

\* C13: among bodies that satisfy every other rule, a body is answered 400
\* 'Suspicious test results detected' exactly when passes > 1000 and
\* fails = 0: passes = 1000 with fails = 0 is accepted, and so is
\* passes > 1000 with fails >= 1.
C13_ImplausibleExactlyAboveThreshold == [][C13_Step]_vars

C13_Witness ==
    \E r \in Requests :
        /\ req[r].status = 201
        /\ req[r].payload.passes = Num(SuspiciousPasses)
        /\ req[r].payload.fails = Num(0)
        /\ req[r].payload.timestamp # Undef

\* the body satisfies every rule but the one on the timestamp
RulesButTimestampHold(data, cur) ==
    validateReportData([data EXCEPT !.timestamp = Undef], cur).valid

C14_Step ==
    \A r \in Requests :
        ( /\ Handled(r)
          /\ RulesButTimestampHold(req'[r].payload, now)
          /\ req'[r].payload.timestamp.t \notin {"undefined", "null"}
          /\ NewDate(req'[r].payload.timestamp).valid )
        => LET reportTime == NewDate(req'[r].payload.timestamp).ms
               tooFar == \/ now - reportTime > SkewTolerance
                         \/ reportTime - now > SkewTolerance
           IN  /\ tooFar => /\ req'[r].status = 400
                            /\ req'[r].error = "Invalid timestamp"
               /\ ~tooFar => req'[r].status # 400

\* C14: a body that satisfies every other rule and carries a timestamp is
\* answered 400 'Invalid timestamp' whenever the timestamp is more than
\* 3600000 ms from the server's clock, earlier or later, for every value of
\* the field that denotes an instant; at 3600000 ms or less it is accepted.
C14_TimestampOutOfBounds == [][C14_Step]_vars

\* the stored value of an optional field: the submitted value, or the default
\* when none was submitted
SubmittedOr(v, default) == IF v = Undef THEN default ELSE v

RejectionMessages ==
    { "Invalid report data", "Missing executor information",
      "Invalid system information", "Invalid test categories",
      "Invalid test results", "Suspicious test results detected",
      "Invalid timestamp" }

C16_Step ==
    \A r \in Requests :
        Handled(r) =>
            LET data == req'[r].payload
                validation == validateReportData(data, now)
            IN  /\ ~validation.threw
                /\ validation.valid \/ validation.error \in RejectionMessages
                /\ ~validation.valid =>
                      /\ req'[r].status = 400
                      /\ req'[r].error = validation.error
                      /\ reports' = reports
                /\ validation.valid =>
                      \/ /\ req'[r].pc = "saving"
                         /\ reports'[Len(reports')].data = data
                      \/ /\ req'[r].status = 500
                         /\ reports' = reports
                /\ SubSeq(reports', 1, Len(reports)) = reports
                /\ file' = file

\* C16: for every body (nothing, null, a string, an array, an object with
\* fields absent or of the wrong type) the validator returns a result, valid
\* or one of its seven errors, and throws nothing: the request is answered
\* 400 with that error, or the body is accepted as submitted; validating
\* changes no stored report and not the file.
C16_ValidationPureAndTotal == [][C16_Step]_vars

C16_Witness ==
    \E r \in Requests :
        /\ req[r].status = 400
        /\ req[r].payload.body = Obj
        /\ req[r].payload.executor = Executor(Null, Undef)
        /\ req[r].payload.system = Arr
        /\ req[r].payload.passes = Str("10")
        /\ Len(reports) = 1

\* a 404 whose body is the JSON object {error: "Report not found"}
IsNotFoundError(resp) ==
    /\ resp.status = 404
    /\ resp.ctype = "json"
    /\ resp.error = "Report not found"

\* C17: for every id no stored report carries, GET /report/{id} and
\* GET /report/{id}/json both answer 404 with the JSON body
\* {error: "Report not found"}.
C17_UnknownIdStructuredError ==
    phase = "listening" =>
        \A id \in (IdSpace \cup {"UNKNOWN123"}) \ IdsOf(reports) :
            /\ IsNotFoundError(GetJsonResponse(reports, id))
            /\ IsNotFoundError(GetHtmlResponse(reports, id))

\* the position in the store of the report a request pushed, 0 if it pushed
\* none
PushedAt(r) == IF req[r].id = "" THEN 0 ELSE FindIndex(reports, req[r].id)

\* C18: the createdAt of the reports ingested by this process never decreases
\* along the store, in every interleaving of the ingests, and it is the
\* reading of the server's clock at the ingest, never the client's timestamp.
C18_CreatedAtFollowsInsertion ==
    /\ \A r, k \in Requests :
          (PushedAt(r) # 0 /\ PushedAt(r) < PushedAt(k)) =>
              CreatedMs(reports[PushedAt(r)]) <= CreatedMs(reports[PushedAt(k)])
    /\ \A r \in Requests :
          PushedAt(r) # 0 =>
              /\ reports[PushedAt(r)].createdAt = req[r].createdAt
              /\ CreatedMs(reports[PushedAt(r)]) \in ClockRange

\* every field of the report object of POST /report is assigned
Complete(report) ==
    /\ report.id \in IdSpace
    /\ Truthy(ExecutorName(report.executor))
    /\ report.executor = report.data.executor
    /\ TypeOf(report.system) = "object" /\ Truthy(report.system)
    /\ IsArray(report.categories)
    /\ report.results.total.t = "number"
    /\ report.results.passed = report.data.passes
    /\ report.results.failed = report.data.fails
    /\ report.results.successRate.t = "number"
    /\ Truthy(report.grade)
    /\ report.duration.t = "number"
    /\ Truthy(report.version)
    /\ NewDate(Str(report.createdAt)).valid
    /\ Truthy(report.timestamp)
    /\ report.ipAddress = ClientIp

\* C19: whatever ingests are in flight, GET /report/{id}/json, GET /report/{id}
\* and GET /reports see the store without a new report or with the whole of
\* it: a read finds no report, or a report with every field assigned, and the
\* report of a request in flight is the one its handler built.
C19_ReadsSeeWholeReports ==
    phase = "listening" =>
        /\ \A id \in IdSpace :
              LET json == GetJsonResponse(reports, id)
                  html == GetHtmlResponse(reports, id)
              IN  /\ json.status = 404 \/ Complete(json.report)
                  /\ html.status = 404 \/ Complete(html.report)
        /\ \A i \in 1..Len(reports) :
              \E n \in 1..Len(reports) :
                  ListResponse(reports).list[n] = Summary(reports[i])
        /\ \A r \in Requests :
              PushedAt(r) # 0 =>
                  reports[PushedAt(r)]
                      = MakeReport(req[r].id, req[r].payload, ClientIp,
                                   CreatedMs(reports[PushedAt(r)]))

C19_Witness ==
    \E r, k \in Requests :
        /\ req[r].pc = "saving" /\ req[r].w = "opened"
        /\ req[k].pc = "saving" /\ req[k].w = "pending"
        /\ PushedAt(r) # 0 /\ PushedAt(k) # 0
        /\ GetJsonResponse(reports, req[k].id).status = 200

\* a step of one of the read handlers
ReadStep ==
    \/ \E id \in IdSpace : GetReportJson(id) \/ GetReportHtml(id)
    \/ GetReports
    \/ GetHealth

\* a step in which a handler of POST /report takes a request up
IngestStep == \E r \in Requests : Handled(r)

C20_Step ==
    /\ ReadStep => (reports' = reports /\ file' = file)
    /\ (phase = "listening" /\ ~IngestStep) =>
          /\ \A id \in IdSpace :
                /\ GetJsonResponse(reports', id) = GetJsonResponse(reports, id)
                /\ GetHtmlResponse(reports', id) = GetHtmlResponse(reports, id)
          /\ ListResponse(reports') = ListResponse(reports)

\* C20: GET /report/{id}, GET /report/{id}/json, GET /reports and GET /health
\* leave the store (its reports and their order) and the file as they are,
\* and as long as no ingest is taken up, whatever else happens (file writes,
\* webhook deliveries, responses, clock readings), each read returns what
\* it returned before.
C20_ReadsReadOnlyAndRepeatable == [][C20_Step]_vars

C20_Witness ==
    /\ phase = "listening"
    /\ Len(reports) >= 2
    /\ CreatedMs(reports[1]) < CreatedMs(reports[2])
    /\ GetJsonResponse(reports, IdString(1)).status = 200
    /\ GetJsonResponse(reports, IdString(NumIds)).status = 404
    /\ \A r \in Requests : Settled(req[r])
    /\ MirrorHoldsStore

\* the step in which loadReports returns: the store is what the file's text
\* parses to, or empty when there is no file or no parse
C21_LoadStep ==
    (phase = "loading" /\ phase' = "listening") =>
        /\ storeKind' = "array"
        /\ reports' = IF file.exists /\ JSONParse(file.text).ok
                      THEN JSONParse(file.text).value
                      ELSE <<>>

\* from then on the store is an array, and a valid body is not answered 500
\* for want of one
C21_StoreIsSequence ==
    /\ phase \in {"listening", "exited"} => storeKind = "array"
    /\ \A r \in Requests :
          (req[r].status = 500 /\ req[r].w = "none") =>
              req[r].idsBefore # {}

\* C21: loadReports always leaves the store an array of reports and the
\* server always starts: the array read from a parseable file, the empty
\* array when the file is absent or unparseable; ingests are then accepted.
C21_LoadNeverFatal == []C21_StoreIsSequence /\ [][C21_LoadStep]_vars

\* C22: every call of generateId ends after a bounded number of attempts,
\* with an id no stored report carries or, when the attempts are used up,
\* with the error IdGenerationExhausted.
C22_GenerationFailsClosed ==
    \A r \in Requests :
        /\ req[r].id # "" => req[r].id \notin req[r].idsBefore
        /\ (req[r].pc = "done" /\ req[r].status = 500 /\ req[r].w = "none") =>
              req[r].error = "IdGenerationExhausted"

\* the error of the first rule a body violates, "" when it violates none
FirstViolation(data, cur) ==
    IF data.body.t # "object"
    THEN "Invalid report data"
    ELSE IF \/ data.executor.t # "object"
            \/ data.executor.name.t \in {"undefined", "null"}
            \/ data.executor.name = Str("")
    THEN "Missing executor information"
    ELSE IF data.system.t # "object"
    THEN "Invalid system information"
    ELSE IF data.categories.t # "array"
    THEN "Invalid test categories"
    ELSE IF data.passes.t # "number" \/ data.fails.t # "number"
    THEN "Invalid test results"
    ELSE IF data.passes.n > SuspiciousPasses /\ data.fails.n = 0
    THEN "Suspicious test results detected"
    ELSE IF /\ Truthy(data.timestamp)
            /\ NewDate(data.timestamp).valid
            /\ \/ cur - NewDate(data.timestamp).ms > SkewTolerance
               \/ NewDate(data.timestamp).ms - cur > SkewTolerance
    THEN "Invalid timestamp"
    ELSE ""

C23_Step ==
    \A r \in Requests :
        Handled(r) =>
            LET expected == FirstViolation(req'[r].payload, now)
            IN  /\ expected # "" => /\ req'[r].status = 400
                                    /\ req'[r].error = expected
                /\ expected = "" => req'[r].status # 400

\* C23: for every body the validator answers with the error of the first
\* rule the body violates, the rules taken in the order: the body is no
\* mapping; executor.name is absent or empty; system is absent or no mapping;
\* categories is absent or no sequence; passes or fails is absent or no
\* number; passes > 1000 with fails = 0; the timestamp is more than an hour
\* off. It accepts the body exactly when no rule is violated.
C23_FirstViolatedRuleReported == [][C23_Step]_vars

\* C24: whenever POST /report has answered 201 for a report, the write of the
\* file that this request started has completed successfully, and the text it
\* wrote held that report; no request whose own write failed or is still in
\* flight is answered 201.
C24_DurableBeforeAck ==
    \A r \in Requests :
        /\ req[r].status = 201 =>
              /\ req[r].w = "written"
              /\ PushedAt(r) # 0
              /\ \E i \in 1..Len(req[r].snapshot) :
                    req[r].snapshot[i] = RepToken(reports[PushedAt(r)])
        /\ req[r].w \in {"pending", "opened", "failed"} => req[r].status # 201

C24_Witness ==
    \E r, k \in Requests :
        /\ req[r].status = 201 /\ req[r].w = "written"
        /\ req[k].status = 500 /\ req[k].w = "failed"
        /\ PushedAt(k) # 0

C26_Step ==
    /\ IngestStep => phase = "listening"
    /\ (phase = "loading" /\ phase' = "listening") =>
          /\ reports = <<>>
          /\ \A r \in Requests : req[r].pc = "idle"
    /\ phase = "listening" =>
          /\ Len(reports') >= Len(reports)
          /\ SubSeq(reports', 1, Len(reports)) = reports

\* C26: the store is replaced as a whole only by loadReports, and only before
\* the server takes its first request: no ingest runs until loadReports has
\* returned, so the load finds no in-memory report to overwrite or discard,
\* and once the server listens the store only grows at its end.
C26_LoadOnlyBeforeFirstRequest == [][C26_Step]_vars

C26_Witness ==
    \E r \in Requests :
        /\ phase = "listening"
        /\ Len(reports) = 2
        /\ reports[1] = OldA
        /\ PushedAt(r) = 2
        /\ req[r].w = "written"
        /\ MirrorHoldsStore

\* C27: the process exits on a signal only after the handler's write of the
\* file has finished, and when that write succeeded the file at exit holds
\* every report the store held when the signal arrived, in the store's order,
\* also the reports whose own ingest write had failed.
C27_SignalSavesStore ==
    phase = "exited" =>
        /\ shutdown.w \in {"written", "failed"}
        /\ shutdown.w = "written" =>
              \A i \in 1..Len(shutdown.atSignal) :
                  /\ file.exists
                  /\ ParsedFile.ok
                  /\ Len(ParsedFile.value) >= i
                  /\ ParsedFile.value[i] = shutdown.atSignal[i]

====
